---- MODULE Spec2Model ----
(***************************************************************************)
(* Binary settings codec, settings hierarchy and mod packs of the Noita    *)
(* mod manager (src/src/app/modpack.rs, src/src/app/modpack/modsettings.rs,*)
(* src/src/ext.rs, src/src/app.rs).                                        *)
(*                                                                         *)
(* Bytes are the integers 0..255, strings and buffers are sequences of     *)
(* bytes.  A reader is the sequence of bytes not yet consumed; every read  *)
(* returns [ok, val, rest].  The host is little-endian, usize is 8 bytes.  *)
(***************************************************************************)
EXTENDS Integers, Sequences, FiniteSets, TLC

VARIABLES
    store,      \* the ModSettings under test: [values, grouped]
    order,      \* the iteration order the HashMap gave the last save
    file,       \* the settings file on disk (compression envelope), or NoFile
    tampered,   \* TRUE once the count header of file was rewritten
    loaded,     \* result of the last ModSettings::load
    illegal,    \* the value of file that is not a legal one: [key, position, value], or NoFile
    buf,        \* input of compress_file
    envelope,   \* output of compress_file
    decompressed, \* result of decompress_file
    givenSize,  \* the file size handed to decompress_file
    damaged,    \* TRUE once envelope is no longer what compress_file wrote
    hierarchy,  \* the ModSettingsGroup handed to ModPack::save
    pack,       \* a ModPack: [name, mods, settings]
    packFile,   \* bytes written by ModPack::save, or NoFile
    loadedPack, \* result of ModPack::load
    lastToggle, \* the last include_all: [from, path, include], or NoFile
    mods,       \* ModListConfig.mods
    mods0,      \* the list as it was before the last apply
    store0,     \* ModListConfig.mod_settings as it was before the last apply
    applied,    \* TRUE once ModPack::apply has run
    disk,       \* what App::init finds: [loaded, config, settings, packs]
    modpacks,   \* pack_config.modpacks: a sequence of [file_name, pack]
    init_errored, \* App.init_errored
    started,    \* TRUE once App::run has called init
    config_written, \* TRUE once save_mods has run
    last,       \* the last click: [op, pack, again, exported], or NoFile
    steps       \* the clicks so far

vars == <<store, order, file, tampered, loaded, illegal,
          buf, envelope, decompressed, givenSize, damaged,
          hierarchy, pack, packFile, loadedPack, lastToggle,
          mods, mods0, store0, applied,
          disk, modpacks, init_errored, started, config_written, last, steps>>

settingsVars == <<store, order, file, tampered, loaded, illegal>>
envelopeVars == <<buf, envelope, decompressed, givenSize, damaged>>
packVars == <<hierarchy, pack, packFile, loadedPack, lastToggle>>
applyVars == <<mods, mods0, store0, applied>>
appVars == <<disk, modpacks, init_errored, started, config_written, last, steps>>

-----------------------------------------------------------------------------
(* Model bounds *)

MaxEntries == 2     \* entries of a generated settings store
MaxShrink == 7      \* how many bytes below the all-literal size a block may be
MaxRun == 17        \* longest single-byte run offered to compress_file
MaxMods == 3        \* length of the installed mod list
MaxPackMods == 2    \* length of a pack's mod-id list

-----------------------------------------------------------------------------
(* Generic helpers *)

NoFile == [none |-> TRUE]
Err == [ok |-> FALSE]
Ok(v, r) == [ok |-> TRUE, val |-> v, rest |-> r]

\* the ? operator: an error ends the function, a value goes on to Then
Try(res, Then(_)) == IF res.ok THEN Then(res) ELSE Err

RECURSIVE Reverse(_)
Reverse(s) == IF s = <<>> THEN <<>> ELSE Reverse(Tail(s)) \o <<Head(s)>>

RECURSIVE Concat(_)
Concat(ss) == IF ss = <<>> THEN <<>> ELSE Head(ss) \o Concat(Tail(ss))

Zeros(n) == [i \in 1..n |-> 0]

Perms(S) == {f \in [1..Cardinality(S) -> S] : \A i, j \in 1..Cardinality(S) : f[i] = f[j] => i = j}

\* byte-wise lexicographic order of two strings (String's Ord)
RECURSIVE StrLess(_, _)
StrLess(a, b) ==
    IF b = <<>> THEN FALSE
    ELSE IF a = <<>> THEN TRUE
    ELSE IF Head(a) # Head(b) THEN Head(a) < Head(b)
    ELSE StrLess(Tail(a), Tail(b))

-----------------------------------------------------------------------------
(* src/src/ext.rs: ByteWriterExt / ByteReaderExt / ByteVec *)

\* bytemuck::bytes_of of an unsigned integer of `size` bytes on a little-endian host
RECURSIVE NativeBytes(_, _)
NativeBytes(v, size) ==
    IF size = 0 THEN <<>> ELSE <<v % 256>> \o NativeBytes(v \div 256, size - 1)

\* Values of 2^24 and more are all kept as 2^24: every length, tag, flag and
\* count of the model is far below it, and any larger value read from a file
\* is rejected by the same comparisons.
Saturated == 256 * 256 * 256

\* bytemuck::try_from_bytes to an unsigned integer
FromNative(b) ==
    IF \E i \in 4..Len(b) : b[i] # 0 THEN Saturated
    ELSE (IF Len(b) >= 1 THEN b[1] ELSE 0)
         + (IF Len(b) >= 2 THEN 256 * b[2] ELSE 0)
         + (IF Len(b) >= 3 THEN 256 * 256 * b[3] ELSE 0)

\* write_le: the native bytes as they are
WriteLe(v, size) == NativeBytes(v, size)

\* write_be: the native bytes reversed
WriteBeBytes(native) == Reverse(native)
WriteBe(v, size) == WriteBeBytes(NativeBytes(v, size))

\* Read::read_exact on the remaining bytes
ReadExact(r, n) ==
    IF Len(r) < n THEN Err
    ELSE Ok(SubSeq(r, 1, n), SubSeq(r, n + 1, Len(r)))

\* read_le::<T>: size_of::<T>() bytes, taken as they are
ReadLeBytes(r, size) == ReadExact(r, size)
ReadLe(r, size) ==
    Try(ReadLeBytes(r, size), LAMBDA b : Ok(FromNative(b.val), b.rest))

\* read_be::<T> without the reversal
ReadBeBytesAsRead(r, size) == ReadExact(r, size)

\* read_be::<T>: size_of::<T>() bytes, reversed
ReadBeBytes(r, size) ==
    Try(ReadExact(r, size), LAMBDA b : Ok(Reverse(b.val), b.rest))
ReadBe(r, size) ==
    Try(ReadBeBytes(r, size), LAMBDA b : Ok(FromNative(b.val), b.rest))

\* String::from_utf8: the well-formed UTF-8 byte sequences
Cont(b) == b >= 128 /\ b <= 191
RECURSIVE IsUtf8(_)
IsUtf8(s) ==
    IF s = <<>> THEN TRUE
    ELSE LET b == s[1]
             n == Len(s)
         IN IF b < 128 THEN IsUtf8(Tail(s))
            ELSE IF b >= 194 /\ b <= 223
                 THEN n >= 2 /\ Cont(s[2]) /\ IsUtf8(SubSeq(s, 3, n))
            ELSE IF b >= 224 /\ b <= 239
                 THEN /\ n >= 3
                      /\ Cont(s[2]) /\ Cont(s[3])
                      /\ (b = 224 => s[2] >= 160)
                      /\ (b = 237 => s[2] <= 159)
                      /\ IsUtf8(SubSeq(s, 4, n))
            ELSE IF b >= 240 /\ b <= 244
                 THEN /\ n >= 4
                      /\ Cont(s[2]) /\ Cont(s[3]) /\ Cont(s[4])
                      /\ (b = 240 => s[2] >= 144)
                      /\ (b = 244 => s[2] <= 143)
                      /\ IsUtf8(SubSeq(s, 5, n))
            ELSE FALSE

\* read_str::<T>(endianness): length, then that many bytes, then from_utf8
ReadStr(r, size, big) ==
    Try(IF big THEN ReadBe(r, size) ELSE ReadLe(r, size), LAMBDA len :
    Try(ReadExact(len.rest, len.val), LAMBDA body :
        IF IsUtf8(body.val) THEN body ELSE Err))

\* write_str::<T>(value, endianness): length, then the bytes
WriteStr(s, size, big) ==
    (IF big THEN WriteBe(Len(s), size) ELSE WriteLe(Len(s), size)) \o s

-----------------------------------------------------------------------------
(* fastlz, the external block compressor behind compress_file and           *)
(* decompress_file.  The crate is no code of this repository; the model     *)
(* keeps what the two call sites depend on: the length of the slice         *)
(* compress returns and the bytes decompress writes.  The bytes of a block  *)
(* are opaque to the program: each is the marker LzByte, and the input the  *)
(* block encodes travels next to the file as its lz field.                  *)

LzByte == 0 - 1

\* output size when compress finds no match: one control byte per run of
\* up to 32 literals
AllLiteral(n) == n + (n + 31) \div 32

\* the smallest block: two leading literals, one match, three trailing
\* literals, each run with its control byte
FastlzMinOut == (1 + 2) + 3 + (1 + 3)

\* the compressor looks for a match at the offsets 2 .. n - 13 of its input,
\* against the three bytes at an earlier offset
HasMatch(inp) ==
    \E p \in 3..(Len(inp) - 12) : \E q \in 1..(p - 1) :
        SubSeq(inp, p, p + 2) = SubSeq(inp, q, q + 2)

\* the lengths fastlz::compress may return for inp (at least 16 bytes long)
FastlzOutLens(inp) ==
    LET n == AllLiteral(Len(inp))
    IN {n} \cup (IF HasMatch(inp)
                 THEN {l \in (n - MaxShrink)..(n - 1) : l >= FastlzMinOut}
                 ELSE {})

\* a payload is a well-formed block iff it is the whole block of file f
IsBlock(payload, f) ==
    /\ payload # <<>>
    /\ f.lz # <<>>
    /\ \A i \in 1..Len(payload) : payload[i] = LzByte
    /\ Len(payload) = Cardinality({i \in 1..Len(f.bytes) : f.bytes[i] = LzByte})

\* fastlz::decompress(&compressed, &mut output): Err when the input is no
\* block or the block does not fit in output; else the decoded bytes are
\* written at the start of output, whose other bytes stay as they were
FastlzDecompress(payload, f, output) ==
    IF ~IsBlock(payload, f) THEN Err
    ELSE IF Len(f.lz) > Len(output) THEN Err
    ELSE Ok(f.lz \o SubSeq(output, Len(f.lz) + 1, Len(output)), <<>>)

-----------------------------------------------------------------------------
(* src/src/app/modpack.rs: compress_file / decompress_file *)

MinInput == 16

\* our_buf: buf, zero-padded to 16 bytes when it is shorter
OurBuf(b) == IF Len(b) < MinInput THEN b \o Zeros(MinInput - Len(b)) ELSE b

\* compress_file(writer, buf) when fastlz::compress returned a slice of
\* outLen bytes: the file written
CompressFile(b, outLen) ==
    IF outLen >= Len(b)
    THEN [bytes |-> WriteLe(Len(b), 4) \o WriteLe(Len(b), 4) \o b, lz |-> <<>>]
    ELSE [bytes |-> WriteLe(outLen, 4) \o WriteLe(Len(b), 4)
                    \o [i \in 1..outLen |-> LzByte],
          lz |-> OurBuf(b)]

\* decompress_file without the comparison of the sizes
DecompressFileAnySize(f, file_size) ==
    Try(ReadLe(f.bytes, 4), LAMBDA compressed_size :
    Try(ReadLe(compressed_size.rest, 4), LAMBDA decompressed_size :
    Try(ReadExact(decompressed_size.rest, compressed_size.val), LAMBDA compressed :
        IF compressed_size.val # decompressed_size.val
        THEN FastlzDecompress(compressed.val, f, Zeros(decompressed_size.val))
        ELSE compressed)))

\* decompress_file(reader, file_size)
DecompressFile(f, file_size) ==
    Try(ReadLe(f.bytes, 4), LAMBDA compressed_size :
        IF compressed_size.val + 8 # file_size THEN Err
        ELSE
    Try(ReadLe(compressed_size.rest, 4), LAMBDA decompressed_size :
    Try(ReadExact(decompressed_size.rest, compressed_size.val), LAMBDA compressed :
        IF compressed_size.val # decompressed_size.val
        THEN FastlzDecompress(compressed.val, f, Zeros(decompressed_size.val))
        ELSE compressed)))

-----------------------------------------------------------------------------
(* src/src/app/modpack/modsettings.rs: ModSettingValue, ModSettingPair *)

\* ModSettingValue; a Number is held as the 8 native bytes of its f64
None == [kind |-> "None"]
Bool(b) == [kind |-> "Bool", b |-> b]
Number(n) == [kind |-> "Number", n |-> n]
String(s) == [kind |-> "String", s |-> s]

\* f64::is_nan and f64's == on the native bytes: exponent bits all set and
\* a non-zero mantissa is NaN; NaN equals nothing, 0.0 equals -0.0
IsNaN(n) ==
    /\ n[8] % 128 = 127
    /\ n[7] \div 16 = 15
    /\ (n[7] % 16 # 0 \/ \E i \in 1..6 : n[i] # 0)
IsZero(n) == (\A i \in 1..7 : n[i] = 0) /\ n[8] % 128 = 0
F64Eq(a, b) == ~IsNaN(a) /\ ~IsNaN(b) /\ (a = b \/ (IsZero(a) /\ IsZero(b)))

\* #[derive(PartialEq)] of ModSettingValue and ModSettingPair
ValueEq(v, w) ==
    /\ v.kind = w.kind
    /\ (v.kind = "Bool" => v.b = w.b)
    /\ (v.kind = "Number" => F64Eq(v.n, w.n))
    /\ (v.kind = "String" => v.s = w.s)
PairEq(p, q) == ValueEq(p.current, q.current) /\ ValueEq(p.next, q.next)

\* ModSettingValue::type_int
type_int(v) ==
    CASE v.kind = "None" -> 0
      [] v.kind = "Bool" -> 1
      [] v.kind = "Number" -> 2
      [] v.kind = "String" -> 3

\* ModSettingValue::save
ModSettingValueSave(v) ==
    CASE v.kind = "None" -> <<>>
      [] v.kind = "Bool" -> WriteBe(IF v.b THEN 1 ELSE 0, 4)
      [] v.kind = "Number" -> WriteBeBytes(v.n)
      [] v.kind = "String" -> WriteStr(v.s, 4, TRUE)

\* ModSettingValue::load
BoolOf(x) ==
    IF x.val = 0 THEN Ok(Bool(FALSE), x.rest)
    ELSE IF x.val = 1 THEN Ok(Bool(TRUE), x.rest)
    ELSE Err
\* ModSettingValue::load that reads an unknown type as None
ModSettingValueLoadLenient(r, setting_type) ==
    IF setting_type = 1 THEN Try(ReadBe(r, 4), BoolOf)
    ELSE IF setting_type = 2
         THEN Try(ReadBeBytes(r, 8), LAMBDA x : Ok(Number(x.val), x.rest))
    ELSE IF setting_type = 3
         THEN Try(ReadStr(r, 4, TRUE), LAMBDA x : Ok(String(x.val), x.rest))
    ELSE Ok(None, r)
ModSettingValueLoad(r, setting_type) ==
    IF setting_type = 0 THEN Ok(None, r)
    ELSE IF setting_type = 1 THEN Try(ReadBe(r, 4), BoolOf)
    ELSE IF setting_type = 2
         THEN Try(ReadBeBytes(r, 8), LAMBDA x : Ok(Number(x.val), x.rest))
    ELSE IF setting_type = 3
         THEN Try(ReadStr(r, 4, TRUE), LAMBDA x : Ok(String(x.val), x.rest))
    ELSE Err

-----------------------------------------------------------------------------
(* src/src/app/modpack.rs: ModSetting::load / ModSetting::save *)

\* ModSetting::save of the entry (key, values)
ModSettingSave(key, values) ==
    WriteBe(Len(key), 4) \o key
    \o WriteBe(type_int(values.current), 4)
    \o WriteBe(type_int(values.next), 4)
    \o ModSettingValueSave(values.current)
    \o ModSettingValueSave(values.next)

\* ModSetting::load; val is [key, values]
ModSettingLoad(r) ==
    Try(ReadStr(r, 4, TRUE), LAMBDA key :
    Try(ReadBe(key.rest, 4), LAMBDA setting_current_type :
    Try(ReadBe(setting_current_type.rest, 4), LAMBDA setting_next_type :
    Try(ModSettingValueLoad(setting_next_type.rest, setting_current_type.val),
        LAMBDA setting_current :
    Try(ModSettingValueLoad(setting_current.rest, setting_next_type.val),
        LAMBDA setting_next :
        Ok([key |-> key.val,
            values |-> [current |-> setting_current.val, next |-> setting_next.val]],
           setting_next.rest))))))

-----------------------------------------------------------------------------
(* src/src/app/modpack.rs: ModSettingsGroup.  A group is the sequence of   *)
(* its children; a child is [name, isGroup, children] (ModSettingsNode::   *)
(* Group) or [name, isGroup, pair, include] (ModSettingsNode::Setting).    *)

Dot == 46

GroupNode(name, children) == [name |-> name, isGroup |-> TRUE, children |-> children]
\* a Setting that is included whatever flag it is given
SettingNodeIncluded(name, pair, include) ==
    [name |-> name, isGroup |-> FALSE, pair |-> pair, include |-> TRUE]
SettingNode(name, pair, include) ==
    [name |-> name, isGroup |-> FALSE, pair |-> pair, include |-> include]

\* key.split('.'): the segments between the dots, at least one
RECURSIVE Split(_)
Split(key) ==
    IF \A i \in 1..Len(key) : key[i] # Dot THEN <<key>>
    ELSE LET d == CHOOSE i \in 1..Len(key) :
                      key[i] = Dot /\ \A j \in 1..(i - 1) : key[j] # Dot
         IN <<SubSeq(key, 1, d - 1)>> \o Split(SubSeq(key, d + 1, Len(key)))

\* ModSettingsGroup::to_set
RECURSIVE to_set(_)
RECURSIVE to_set_children(_, _)
to_set_children(children, set) ==
    IF children = <<>> THEN set
    ELSE LET child == Head(children)
             child_set == IF child.isGroup
                          THEN {<<Dot>> \o e : e \in to_set(child.children)}
                          ELSE {}
         IN to_set_children(Tail(children),
                            {child.name \o e : e \in set \cup child_set})
to_set(g) == to_set_children(g, {})

\* all_included that asks the settings of the group only
all_included_children(g) ==
    \A i \in 1..Len(g) : g[i].isGroup \/ g[i].include

\* ModSettingsGroup::all_included
RECURSIVE all_included(_)
all_included(g) ==
    \A i \in 1..Len(g) :
        IF g[i].isGroup THEN all_included(g[i].children) ELSE g[i].include

\* include_all that stops at the children of the group
include_all_children(g, include) ==
    [i \in 1..Len(g) |-> IF g[i].isGroup THEN g[i] ELSE [g[i] EXCEPT !.include = include]]

\* ModSettingsGroup::include_all
RECURSIVE include_all(_, _)
include_all(g, include) ==
    [i \in 1..Len(g) |->
        IF g[i].isGroup
        THEN [g[i] EXCEPT !.children = include_all(g[i].children, include)]
        ELSE [g[i] EXCEPT !.include = include]]

\* ModSettingsGroup::render: the index paths of the Setting checkboxes and
\* of the Group checkboxes it shows
RECURSIVE SettingPaths(_)
SettingPaths(g) ==
    UNION {IF g[i].isGroup
           THEN {<<i>> \o q : q \in SettingPaths(g[i].children)}
           ELSE {<<i>>} : i \in 1..Len(g)}
RECURSIVE GroupPaths(_)
GroupPaths(g) ==
    UNION {IF g[i].isGroup
           THEN {<<i>>} \cup {<<i>> \o q : q \in GroupPaths(g[i].children)}
           ELSE {} : i \in 1..Len(g)}

\* the children of the group at path; the root for the empty path
RECURSIVE ChildrenAt(_, _)
ChildrenAt(g, path) ==
    IF path = <<>> THEN g ELSE ChildrenAt(g[path[1]].children, Tail(path))

\* include_all(include) called on the group at path
RECURSIVE IncludeAllAt(_, _, _)
IncludeAllAt(g, path, include) ==
    IF path = <<>> THEN include_all(g, include)
    ELSE [g EXCEPT ![path[1]].children = IncludeAllAt(@, Tail(path), include)]

\* a click on the checkbox of the Setting at path
RECURSIVE ClickSetting(_, _)
ClickSetting(g, path) ==
    IF Len(path) = 1 THEN [g EXCEPT ![path[1]].include = ~@]
    ELSE [g EXCEPT ![path[1]].children = ClickSetting(@, Tail(path))]

\* a click on the checkbox of the Group at path:
\* include_all(!all_included())
RECURSIVE ClickGroup(_, _)
ClickGroup(g, path) ==
    IF Len(path) = 1
    THEN [g EXCEPT ![path[1]].children = include_all(@, ~all_included(@))]
    ELSE [g EXCEPT ![path[1]].children = ClickGroup(@, Tail(path))]

\* sort_by_key(|e| e.0.clone()): stable, by segment name
RECURSIVE InsertByName(_, _)
InsertByName(sorted, x) ==
    IF sorted = <<>> THEN <<x>>
    ELSE IF StrLess(x.name, Head(sorted).name) THEN <<x>> \o sorted
    ELSE <<Head(sorted)>> \o InsertByName(Tail(sorted), x)
RECURSIVE SortByName(_, _)
SortByName(todo, sorted) ==
    IF todo = <<>> THEN sorted
    ELSE SortByName(Tail(todo), InsertByName(sorted, Head(todo)))

\* the tree left in the order the children were pushed
sort_none(g) == g

\* ModSettingsGroup::sort: the children's groups first, then this level
RECURSIVE sort(_)
sort(g) ==
    SortByName([i \in 1..Len(g) |->
                   IF g[i].isGroup
                   THEN [g[i] EXCEPT !.children = sort(g[i].children)]
                   ELSE g[i]],
               <<>>)

\* the node pushed on the root, whatever the path
traverse_root(g, path, node) == Append(g, node)

\* every segment of the path given a new group, none entered
RECURSIVE traverse_new(_, _, _)
traverse_new(g, path, node) ==
    IF path = <<>> THEN Append(g, node)
    ELSE Append(g, GroupNode(Head(path), traverse_new(<<>>, Tail(path), node)))

\* ModSettingsGroup::traverse(path) followed by a push of node on the group
\* it returns: the first child Group named like the segment is entered, a
\* new empty Group is pushed when there is none
RECURSIVE traverse(_, _, _)
traverse(g, path, node) ==
    IF path = <<>> THEN Append(g, node)
    ELSE LET section == Head(path)
             found == {i \in 1..Len(g) : g[i].name = section /\ g[i].isGroup}
         IN IF found # {}
            THEN LET parent == CHOOSE i \in found : \A j \in found : i <= j
                 IN [g EXCEPT ![parent].children = traverse(@, Tail(path), node)]
            ELSE Append(g, GroupNode(section, traverse(<<>>, Tail(path), node)))

\* ModSettingsGroup::traverse(path) alone: the groups of path entered,
\* pushed empty where there is none
RECURSIVE traverse_path(_, _)
traverse_path(g, path) ==
    IF path = <<>> THEN g
    ELSE LET section == Head(path)
             found == {i \in 1..Len(g) : g[i].name = section /\ g[i].isGroup}
         IN IF found # {}
            THEN LET parent == CHOOSE i \in found : \A j \in found : i <= j
                 IN [g EXCEPT ![parent].children = traverse_path(@, Tail(path))]
            ELSE Append(g, GroupNode(section, traverse_path(<<>>, Tail(path))))

-----------------------------------------------------------------------------
(* src/src/app/modpack.rs: ModSettings.  values is a function from the     *)
(* keys to their pairs (the HashMap); an iteration of the map visits the   *)
(* keys in the order given by a sequence iter holding each key once.       *)

EmptyMap == [k \in {} |-> None]
Insert(map, key, value) == (key :> value) @@ map

\* ModSettings::compute_grouped, the map visited in the order iter
RECURSIVE compute_grouped_from(_, _, _)
compute_grouped_from(map, iter, tree) ==
    IF iter = <<>> THEN tree
    ELSE LET key == Head(iter)
             parts == Split(key)
             suffix == parts[Len(parts)]
             prefix == SubSeq(parts, 1, Len(parts) - 1)
         IN compute_grouped_from(map, Tail(iter),
                traverse(tree, prefix, SettingNode(suffix, map[key], FALSE)))
compute_grouped(map, iter) == sort(compute_grouped_from(map, iter, <<>>))

\* the buffer ModSettings::save hands to compress_file
SettingsBuf(values, iter) ==
    WriteBe(Cardinality(DOMAIN values), 8)
    \o Concat([i \in 1..Len(iter) |-> ModSettingSave(iter[i], values[iter[i]])])

\* ModSettings::save, the map visited in the order iter and
\* fastlz::compress returning outLen bytes
ModSettingsSave(settings, iter, outLen) ==
    CompressFile(SettingsBuf(settings.values, iter), outLen)

\* the while loop of ModSettings::load
RECURSIVE LoadEntries(_, _, _)
LoadEntries(r, num_entries, settings) ==
    IF r = <<>> THEN [ok |-> TRUE, num_entries |-> num_entries, settings |-> settings]
    ELSE Try(ModSettingLoad(r), LAMBDA setting :
             LoadEntries(setting.rest, num_entries + 1,
                         Insert(settings, setting.val.key, setting.val.values)))

\* ModSettings::load without its entry-count check
LoadValuesUnchecked(f, file_size) ==
    Try(DecompressFile(f, file_size), LAMBDA decompressed_ :
    Try(ReadBe(decompressed_.val, 8), LAMBDA expected_num_entries :
    Try(LoadEntries(expected_num_entries.rest, 0, EmptyMap), LAMBDA e :
        [ok |-> TRUE, values |-> e.settings])))

\* ModSettings::load up to the entry-count check: the map, or Err
LoadValues(f, file_size) ==
    Try(DecompressFile(f, file_size), LAMBDA decompressed_ :
    Try(ReadBe(decompressed_.val, 8), LAMBDA expected_num_entries :
    Try(LoadEntries(expected_num_entries.rest, 0, EmptyMap), LAMBDA e :
        IF e.num_entries # expected_num_entries.val THEN Err
        ELSE [ok |-> TRUE, values |-> e.settings])))

\* ModSettings::load: every result it can return, one for each order in
\* which compute_grouped may visit the map
Grouped(v) ==
    {[ok |-> TRUE, values |-> v.values, grouped |-> compute_grouped(v.values, iter)] :
        iter \in Perms(DOMAIN v.values)}
ModSettingsLoad(f, file_size) ==
    LET v == LoadValues(f, file_size)
    IN IF v.ok THEN Grouped(v) ELSE {Err}

\* #[derive(PartialEq)] of HashMap<String, ModSettingPair>
MapEq(a, b) == DOMAIN a = DOMAIN b /\ \A k \in DOMAIN a : PairEq(a[k], b[k])

\* #[derive(PartialEq)] of ModSettingsGroup
RECURSIVE GroupEq(_, _)
GroupEq(g, h) ==
    /\ Len(g) = Len(h)
    /\ \A i \in 1..Len(g) :
          /\ g[i].name = h[i].name
          /\ g[i].isGroup = h[i].isGroup
          /\ IF g[i].isGroup
             THEN GroupEq(g[i].children, h[i].children)
             ELSE g[i].include = h[i].include /\ PairEq(g[i].pair, h[i].pair)

\* #[derive(PartialEq)] of ModSettings
ModSettingsEq(a, b) == MapEq(a.values, b.values) /\ GroupEq(a.grouped, b.grouped)

-----------------------------------------------------------------------------
(* src/src/app/modpack.rs: ModPack.  A pack is [name, mods, settings];     *)
(* file_name plays no part in what is written or applied.                  *)

\* ModPack::new
ModPackNew(name, mod_ids, settings) ==
    [name |-> name, mods |-> mod_ids, settings |-> settings]

\* the entries ModPack::save writes: those of the map, in the order iter,
\* that pass filter(|(key, _)| set.contains(*key))
Filtered(iter, set) == SelectSeq(iter, LAMBDA key : key \in set)

\* ModPack::save(writer, include), the map visited in the order iter
ModPackSave(p, include, iter) ==
    WriteLe(0, 8)
    \o WriteStr(p.name, 8, FALSE)
    \o WriteLe(Len(p.mods), 8)
    \o Concat([i \in 1..Len(p.mods) |-> WriteLe(Len(p.mods[i]), 8) \o p.mods[i]])
    \o WriteLe(Cardinality(DOMAIN p.settings.values), 8)
    \o Concat([i \in 1..Len(Filtered(iter, to_set(include))) |->
                  ModSettingSave(Filtered(iter, to_set(include))[i],
                                 p.settings.values[Filtered(iter, to_set(include))[i]])])

\* for _ in 0..num_mods { mods.push(read_str) }
RECURSIVE LoadMods(_, _, _)
LoadMods(r, num_mods, mod_ids) ==
    IF num_mods = 0 THEN Ok(mod_ids, r)
    ELSE Try(ReadStr(r, 8, FALSE), LAMBDA mod_name :
             LoadMods(mod_name.rest, num_mods - 1, Append(mod_ids, mod_name.val)))

\* for i in 0..num_settings { settings.insert(ModSetting::load) }
RECURSIVE LoadSettings(_, _, _)
LoadSettings(r, num_settings, settings) ==
    IF num_settings = 0 THEN Ok(settings, r)
    ELSE Try(ModSettingLoad(r), LAMBDA setting :
             LoadSettings(setting.rest, num_settings - 1,
                          Insert(settings, setting.val.key, setting.val.values)))

\* ModPack::load_v0
ModPackLoadV0(r) ==
    Try(ReadStr(r, 8, FALSE), LAMBDA name :
    Try(ReadLe(name.rest, 8), LAMBDA num_mods :
    Try(LoadMods(num_mods.rest, num_mods.val, <<>>), LAMBDA mod_ids :
    Try(ReadLe(mod_ids.rest, 8), LAMBDA num_settings :
    Try(LoadSettings(num_settings.rest, num_settings.val, EmptyMap), LAMBDA settings :
        [ok |-> TRUE,
         pack |-> ModPackNew(name.val, mod_ids.val,
                             [values |-> settings.val, grouped |-> <<>>])])))))

\* ModPack::load that hands every version to load_v0
ModPackLoadAnyVersion(r) ==
    Try(ReadLe(r, 8), LAMBDA version : ModPackLoadV0(version.rest))

\* ModPack::load; the error for a future schema keeps the reader as bail!
\* leaves it, with rest the bytes not read
ModPackLoad(r) ==
    Try(ReadLe(r, 8), LAMBDA version :
        IF version.val = 0 THEN ModPackLoadV0(version.rest)
        ELSE [ok |-> FALSE, rest |-> version.rest])

-----------------------------------------------------------------------------
(* src/src/app/modpack.rs: ModPack::apply.  A mod is [id, name, kind] with *)
(* kind [tag |-> "Normal", enabled] or [tag |-> "Translation"] or          *)
(* [tag |-> "Gamemode"]; the other fields of Mod are not touched by apply. *)

Normal(e) == [tag |-> "Normal", enabled |-> e]
Translation == [tag |-> "Translation"]
Gamemode == [tag |-> "Gamemode"]
Mod(id, name, kind) == [id |-> id, name |-> name, kind |-> kind]

\* the map `enabled`: every id of the pack to the index inserted last for it
enabled(p) ==
    [id \in {p.mods[i] : i \in 1..Len(p.mods)} |->
        CHOOSE i \in 1..Len(p.mods) :
            p.mods[i] = id /\ \A j \in (i + 1)..Len(p.mods) : p.mods[j] # id]

\* the same loop body without its else branch
SetEnabledNoElse(nmod, map) ==
    IF nmod.kind.tag = "Normal" /\ nmod.id \in DOMAIN map
    THEN [nmod EXCEPT !.kind.enabled = TRUE]
    ELSE nmod

\* the same loop body flipping the flag of the mods of the pack
SetEnabledToggle(nmod, map) ==
    IF nmod.kind.tag = "Normal"
    THEN [nmod EXCEPT !.kind.enabled = (nmod.id \in DOMAIN map) /\ ~@]
    ELSE nmod

\* the body of the loop over mod_list_config.mods, for one mod and the map
SetEnabled(nmod, map) ==
    IF nmod.kind.tag = "Normal"
    THEN [nmod EXCEPT !.kind.enabled = (nmod.id \in DOMAIN map)]
    ELSE nmod

\* enabled_idxs: the indices of the Normal mods found in the map, ascending
enabled_idxs(ms, map) ==
    SelectSeq([i \in 1..Len(ms) |-> i],
              LAMBDA i : ms[i].kind.tag = "Normal" /\ ms[i].id \in DOMAIN map)

\* enabled_mods: the clones of the mods at idxs, each with the index of its id
enabled_mods(ms, map, idxs) ==
    [k \in 1..Len(idxs) |-> <<SetEnabled(ms[idxs[k]], map), map[ms[idxs[k]].id]>>]

\* enabled_mods left in the order of the list
unsorted(todo, sorted) == sorted \o todo

\* enabled_mods.sort_by_key(|e| e.1): stable
RECURSIVE InsertByKey(_, _)
InsertByKey(sorted, x) ==
    IF sorted = <<>> THEN <<x>>
    ELSE IF x[2] < Head(sorted)[2] THEN <<x>> \o sorted
    ELSE <<Head(sorted)>> \o InsertByKey(Tail(sorted), x)
RECURSIVE sort_by_key(_, _)
sort_by_key(todo, sorted) ==
    IF todo = <<>> THEN sorted
    ELSE sort_by_key(Tail(todo), InsertByKey(sorted, Head(todo)))

\* the sorted mods written to the front of the list
WriteFront(ms, sorted, idxs) ==
    [i \in 1..Len(ms) |-> IF i <= Len(sorted) THEN sorted[i][1] ELSE ms[i]]

\* for (nmod, idx) in zip(enabled_mods, enabled_idxs) { mods[idx] = nmod.0 }
WriteBack(ms, sorted, idxs) ==
    [i \in 1..Len(ms) |->
        IF \E k \in 1..Len(idxs) : idxs[k] = i
        THEN sorted[CHOOSE k \in 1..Len(idxs) : idxs[k] = i][1]
        ELSE ms[i]]

\* ModPack::apply on the list of mods
ApplyMods(p, ms) ==
    LET map == enabled(p)
        idxs == enabled_idxs(ms, map)
    IN WriteBack([i \in 1..Len(ms) |-> SetEnabled(ms[i], map)],
                 sort_by_key(enabled_mods(ms, map, idxs), <<>>),
                 idxs)

\* the entries of the pack inserted only where the key is new
ApplySettingsKeepOld(p, settings) ==
    [settings EXCEPT !.values = @ @@ p.settings.values]

\* ModPack::apply on the settings: every entry of the pack inserted
ApplySettings(p, settings) ==
    [settings EXCEPT !.values = p.settings.values @@ @]

-----------------------------------------------------------------------------
(* Inputs *)

KeyA == <<97>>
KeyAB == <<97, 46, 98>>
KeyE == <<195, 169>>
KeyPool == {KeyA, KeyAB, KeyE}

\* f64 values by their native (little-endian) bytes: 1.0, -0.0, a NaN
One == <<0, 0, 0, 0, 0, 0, 240, 63>>
MinusZero == <<0, 0, 0, 0, 0, 0, 0, 128>>
NaN == <<0, 0, 0, 0, 0, 0, 248, 127>>

Pair(c, n) == [current |-> c, next |-> n]
PairPool ==
    { Pair(None, Bool(TRUE)),
      Pair(Bool(FALSE), String(<<>>)),
      Pair(Number(MinusZero), String(<<120>>)),
      Pair(Number(NaN), Number(One)) }

PackPairPool == {Pair(Bool(TRUE), None), Pair(String(<<120>>), Number(One))}

\* the maps of at most MaxEntries entries
MapPool ==
    UNION {[K -> PairPool] : K \in {K \in SUBSET KeyPool : Cardinality(K) <= MaxEntries}}

NoNaN(values) ==
    \A k \in DOMAIN values :
        /\ (values[k].current.kind = "Number" => ~IsNaN(values[k].current.n))
        /\ (values[k].next.kind = "Number" => ~IsNaN(values[k].next.n))

\* keys for the settings tree: a key that is a dotted prefix of another, keys
\* with an empty segment, keys that share a chain of groups
KeyNone == <<>>
KeyADot == <<97, 46>>
KeyABC == <<97, 46, 98, 46, 99>>
KeyABD == <<97, 46, 98, 46, 100>>
TreeKeyPool == {KeyA, KeyAB, KeyNone, KeyADot, KeyABC, KeyABD}
TreeMapPool ==
    UNION {[K -> PackPairPool] : K \in {K \in SUBSET TreeKeyPool : Cardinality(K) <= MaxEntries}}

\* paths handed to traverse alone
TraversePool == {<<<<122>>, <<122>>>>, <<<<97>>, <<122>>>>}

\* mod ids and pack names
IdA == <<65>>
IdB == <<66>>
IdC == <<67>>
IdPool == {IdA, IdB, IdC}
NamePool == {<<>>, <<80, 49>>}

\* the settings of a pack: maps of at most MaxEntries entries
PackMapPool ==
    UNION {[K -> PackPairPool] : K \in {K \in SUBSET KeyPool : Cardinality(K) <= MaxEntries}}

\* the mod-id lists of a pack: at most MaxPackMods ids
PackModsPool == UNION {[1..n -> IdPool] : n \in 0..MaxPackMods}

\* the settings a pack is applied to, and the settings of the applied pack:
\* one key of the store overwritten, with or without a key that is new
InstalledMap == (KeyA :> Pair(None, None)) @@ (KeyAB :> Pair(None, Bool(TRUE)))
AppliedMapPool ==
    { KeyA :> Pair(Bool(TRUE), None),
      (KeyA :> Pair(Bool(TRUE), None)) @@ (KeyE :> Pair(String(<<120>>), Number(One))) }

\* the installed mods: Normal ones of every id, enabled or not, and a
\* translation and a game mode; the name tells the mods of a list apart
KindPool ==
    {<<id, Normal(e)>> : id \in IdPool, e \in BOOLEAN}
    \cup {<<IdA, Translation>>, <<IdB, Gamemode>>}
ModListPool ==
    UNION {{[i \in 1..n |-> Mod(c[i][1], <<48 + i>>, c[i][2])] : c \in [1..n -> KindPool]} :
              n \in 0..MaxMods}

\* values of the variables a specification does not use
IdleSettings ==
    /\ store = [values |-> EmptyMap, grouped |-> <<>>]
    /\ order = <<>>
    /\ file = NoFile
    /\ tampered = FALSE
    /\ loaded = NoFile
    /\ illegal = NoFile
IdleEnvelope ==
    /\ buf = <<>>
    /\ envelope = NoFile
    /\ decompressed = NoFile
    /\ givenSize = 0
    /\ damaged = FALSE
IdlePack ==
    /\ hierarchy = <<>>
    /\ lastToggle = NoFile
    /\ pack = NoFile
    /\ packFile = NoFile
    /\ loadedPack = NoFile
IdleApply ==
    /\ mods = <<>>
    /\ mods0 = <<>>
    /\ store0 = NoFile
    /\ applied = FALSE
IdleApp ==
    /\ disk = NoFile
    /\ modpacks = <<>>
    /\ init_errored = FALSE
    /\ started = FALSE
    /\ config_written = FALSE
    /\ last = NoFile
    /\ steps = 0

-----------------------------------------------------------------------------
(* Settings file: save, an outside rewrite of the count header, load.      *)
(* The store is what the quickcheck generator of ModSettings builds: any   *)
(* map, with the default (empty) grouped tree.                             *)

InitSettings ==
    /\ store \in {[values |-> m, grouped |-> <<>>] : m \in MapPool}
    /\ order = <<>>
    /\ file = NoFile
    /\ tampered = FALSE
    /\ loaded = NoFile
    /\ illegal = NoFile
    /\ IdleEnvelope /\ IdlePack /\ IdleApply
    /\ IdleApp

\* value.save(&mut buffer)
Save ==
    /\ file = NoFile
    /\ \E iter \in Perms(DOMAIN store.values) :
         \E outLen \in FastlzOutLens(OurBuf(SettingsBuf(store.values, iter))) :
            /\ file' = ModSettingsSave(store, iter, outLen)
            /\ order' = iter
    /\ UNCHANGED <<store, tampered, loaded, illegal, envelopeVars, packVars, applyVars, appVars>>

\* the saved payload with a count one off in its header, wrapped again
Tamper ==
    /\ file # NoFile /\ ~tampered /\ loaded = NoFile
    /\ \E count \in {Cardinality(DOMAIN store.values) - 1,
                     Cardinality(DOMAIN store.values) + 1} \cap Nat :
         LET saved == SettingsBuf(store.values, order)
             payload == WriteBe(count, 8) \o SubSeq(saved, 9, Len(saved))
         IN \E outLen \in FastlzOutLens(OurBuf(payload)) :
                file' = CompressFile(payload, outLen)
    /\ tampered' = TRUE
    /\ UNCHANGED <<store, order, loaded, illegal, envelopeVars, packVars, applyVars, appVars>>

\* ModSettings::load(&mut buffer, len) with len the size of the file
Load ==
    /\ file # NoFile /\ loaded = NoFile
    /\ loaded' \in ModSettingsLoad(file, Len(file.bytes))
    /\ UNCHANGED <<store, order, file, tampered, illegal, envelopeVars, packVars, applyVars, appVars>>

NextSettings == Save \/ Tamper \/ Load

SpecSettings == InitSettings /\ [][NextSettings]_vars

\* the count a settings file declares and the number of entries it holds
Payload(f) == DecompressFile(f, Len(f.bytes))
DeclaredCount(f) == ReadBe(Payload(f).val, 8).val
ParsedCount(f) == LoadEntries(ReadBe(Payload(f).val, 8).rest, 0, EmptyMap).num_entries

\* C1: loading what save wrote, for a store without NaN, succeeds and gives
\* a map equal to the saved one, whatever order save iterated the map in.
C1_SaveLoadMap ==
    (loaded # NoFile /\ ~tampered /\ NoNaN(store.values))
        => (loaded.ok /\ MapEq(loaded.values, store.values))

\* two entries, visited by save in an order of its own, compressed, loaded
C1_Witness ==
    /\ loaded # NoFile /\ ~tampered /\ NoNaN(store.values)
    /\ loaded.ok
    /\ file.lz # <<>>
    /\ order = <<KeyAB, KeyA>>

\* C2: loading what save wrote, for a store whose grouped tree is the empty
\* default, gives a ModSettings equal to the original under the derived
\* equality, which compares the values map and the grouped tree.
C2_SaveLoadDerivedEq ==
    (loaded # NoFile /\ ~tampered /\ NoNaN(store.values) /\ store.grouped = <<>>)
        => (loaded.ok /\ ModSettingsEq(store, loaded))

\* C4: a save of N entries declares N in its count header, and a load of a
\* file whose declared count differs from the entries it holds returns no
\* store.
C4_CountHeader ==
    /\ (file # NoFile /\ ~tampered)
          => DeclaredCount(file) = Cardinality(DOMAIN store.values)
    /\ (loaded # NoFile /\ Payload(file).ok /\ DeclaredCount(file) # ParsedCount(file))
          => ~loaded.ok

\* a file of two entries that declares three, loaded
C4_Witness ==
    /\ loaded # NoFile /\ tampered
    /\ DeclaredCount(file) = 3
    /\ ParsedCount(file) = 2
    /\ ~loaded.ok

-----------------------------------------------------------------------------
(* Compression envelope alone *)

Run(b, n) == [i \in 1..n |-> b]
Distinct(n) == [i \in 1..n |-> i]

\* the input of test::compress
TestCompressInput ==
    <<239, 191, 180, 226, 128, 128, 239, 191, 180, 226, 129, 128,
      224, 160, 128, 0, 0, 0, 0>>

BufPool ==
    {Run(0, n) : n \in 0..MaxRun} \cup {Run(97, n) : n \in 0..MaxRun}
    \cup {Distinct(n) : n \in 0..MaxRun} \cup {TestCompressInput}

InitEnvelope ==
    /\ buf \in BufPool
    /\ envelope = NoFile
    /\ decompressed = NoFile
    /\ givenSize = 0
    /\ damaged = FALSE
    /\ IdleSettings /\ IdlePack /\ IdleApply
    /\ IdleApp

\* compress_file(&mut buffer, bytes)
Compress ==
    /\ envelope = NoFile
    /\ \E outLen \in FastlzOutLens(OurBuf(buf)) : envelope' = CompressFile(buf, outLen)
    /\ UNCHANGED <<buf, decompressed, givenSize, damaged,
                   settingsVars, packVars, applyVars, appVars>>

\* the file cut short by one byte
Truncate ==
    /\ envelope # NoFile /\ ~damaged /\ decompressed = NoFile
    /\ Len(envelope.bytes) > 8
    /\ envelope' = [envelope EXCEPT !.bytes = SubSeq(@, 1, Len(@) - 1)]
    /\ damaged' = TRUE
    /\ UNCHANGED <<buf, decompressed, givenSize, settingsVars, packVars, applyVars, appVars>>

\* a compressed file whose decompressed-size field says one byte more
GrowOriginal ==
    /\ envelope # NoFile /\ ~damaged /\ decompressed = NoFile
    /\ envelope.lz # <<>>
    /\ envelope' = [envelope EXCEPT !.bytes =
                       SubSeq(@, 1, 4)
                       \o WriteLe(FromNative(SubSeq(@, 5, 8)) + 1, 4)
                       \o SubSeq(@, 9, Len(@))]
    /\ damaged' = TRUE
    /\ UNCHANGED <<buf, decompressed, givenSize, settingsVars, packVars, applyVars, appVars>>

\* decompress_file(&mut buffer, len): len the size of the file, or one off
Decompress ==
    /\ envelope # NoFile /\ decompressed = NoFile
    /\ \E len \in {Len(envelope.bytes) - 1, Len(envelope.bytes), Len(envelope.bytes) + 1} :
          /\ len >= 0
          /\ decompressed' = DecompressFile(envelope, len)
          /\ givenSize' = len
    /\ UNCHANGED <<buf, envelope, damaged, settingsVars, packVars, applyVars, appVars>>

NextEnvelope == Compress \/ Truncate \/ GrowOriginal \/ Decompress

SpecEnvelope == InitEnvelope /\ [][NextEnvelope]_vars

\* C3: decompress_file of what compress_file wrote succeeds and returns the
\* bytes that were compressed, for every byte string: the empty one, those
\* shorter than 16 bytes, those the compressor cannot shrink.
C3_EnvelopeRoundTrip ==
    (decompressed # NoFile /\ ~damaged /\ givenSize = Len(envelope.bytes))
        => (decompressed.ok /\ decompressed.val = buf)

-----------------------------------------------------------------------------
(* Export of a mod pack: the include checkboxes of the settings tree, then *)
(* ModPack::save with that tree, then ModPack::load of the file.           *)

InitPack ==
    /\ pack \in {ModPackNew(n, ms, [values |-> m, grouped |-> <<>>]) :
                    n \in NamePool, ms \in PackModsPool, m \in PackMapPool}
    /\ hierarchy \in {compute_grouped(pack.settings.values, iter) :
                         iter \in Perms(DOMAIN pack.settings.values)}
    /\ packFile = NoFile
    /\ loadedPack = NoFile
    /\ lastToggle = NoFile
    /\ IdleSettings /\ IdleEnvelope /\ IdleApply
    /\ IdleApp

\* the checkbox of one setting
ToggleSetting ==
    /\ packFile = NoFile
    /\ \E path \in SettingPaths(hierarchy) : hierarchy' = ClickSetting(hierarchy, path)
    /\ lastToggle' = NoFile
    /\ UNCHANGED <<pack, packFile, loadedPack, settingsVars, envelopeVars, applyVars, appVars>>

\* the checkbox of one group
ToggleGroup ==
    /\ packFile = NoFile
    /\ \E path \in GroupPaths(hierarchy) :
          /\ hierarchy' = ClickGroup(hierarchy, path)
          /\ lastToggle' = [from |-> hierarchy, path |-> path,
                            include |-> ~all_included(ChildrenAt(hierarchy, path))]
    /\ UNCHANGED <<pack, packFile, loadedPack, settingsVars, envelopeVars, applyVars, appVars>>

\* pack.save(&mut file, &hierarchy)
PackSave ==
    /\ packFile = NoFile
    /\ \E iter \in Perms(DOMAIN pack.settings.values) :
          packFile' = ModPackSave(pack, hierarchy, iter)
    /\ UNCHANGED <<pack, hierarchy, loadedPack, lastToggle,
                   settingsVars, envelopeVars, applyVars, appVars>>

\* ModPack::load(&mut file, file_name)
PackLoad ==
    /\ packFile # NoFile /\ loadedPack = NoFile
    /\ loadedPack' = ModPackLoad(packFile)
    /\ UNCHANGED <<pack, hierarchy, packFile, lastToggle,
                   settingsVars, envelopeVars, applyVars, appVars>>

\* a pack file of another schema: the saved bytes behind a version that is
\* not 0
FutureVersions == {WriteLe(1, 8), <<0, 0, 0, 0, 0, 0, 0, 1>>}
FutureSchema ==
    /\ packFile # NoFile /\ loadedPack = NoFile
    /\ SubSeq(packFile, 1, 8) = WriteLe(0, 8)
    /\ \E version \in FutureVersions :
          packFile' = version \o SubSeq(packFile, 9, Len(packFile))
    /\ UNCHANGED <<pack, hierarchy, loadedPack, lastToggle,
                   settingsVars, envelopeVars, applyVars, appVars>>

NextPack == ToggleSetting \/ ToggleGroup \/ PackSave \/ FutureSchema \/ PackLoad

SpecPack == InitPack /\ [][NextPack]_vars

\* the full dotted keys of the settings whose include flag is set
RECURSIVE IncludedKeys(_)
IncludedKeys(g) ==
    UNION {IF g[i].isGroup
           THEN {g[i].name \o <<Dot>> \o e : e \in IncludedKeys(g[i].children)}
           ELSE IF g[i].include THEN {g[i].name} ELSE {} : i \in 1..Len(g)}

Restrict(map, keys) == [k \in DOMAIN map \cap keys |-> map[k]]

\* the entries found after the settings count of a pack file
WrittenEntries(f) ==
    Try(ReadLe(f, 8), LAMBDA version :
    Try(ReadStr(version.rest, 8, FALSE), LAMBDA name :
    Try(ReadLe(name.rest, 8), LAMBDA num_mods :
    Try(LoadMods(num_mods.rest, num_mods.val, <<>>), LAMBDA mod_ids :
    Try(ReadLe(mod_ids.rest, 8), LAMBDA num_settings :
        LoadEntries(num_settings.rest, 0, EmptyMap))))))

\* C5: ModPack::save writes exactly the entries of the pack's settings whose
\* key is the full dotted key of a setting with include = true.
C5_SaveWritesIncluded ==
    packFile # NoFile
        => /\ WrittenEntries(packFile).ok
           /\ WrittenEntries(packFile).settings
                 = Restrict(pack.settings.values, IncludedKeys(hierarchy))

\* C6: to_set returns exactly the set of full dotted keys of the settings
\* whose include flag is true, for every tree and every state of the flags.
C6_ToSetIsIncluded ==
    to_set(hierarchy) = IncludedKeys(hierarchy)

\* C7: ModPack::load of what ModPack::save wrote succeeds and returns the
\* same name, the same mod ids in the same order and the pack's settings
\* restricted to the inclusion set.
C7_PackRoundTrip ==
    (loadedPack # NoFile /\ SubSeq(packFile, 1, 8) = WriteLe(0, 8))
        => /\ loadedPack.ok
           /\ loadedPack.pack.name = pack.name
           /\ loadedPack.pack.mods = pack.mods
           /\ loadedPack.pack.settings.values
                 = Restrict(pack.settings.values, IncludedKeys(hierarchy))

-----------------------------------------------------------------------------
(* ModPack::apply on the installed mod list *)

InitApply ==
    /\ pack \in {ModPackNew(<<80, 49>>, ms, [values |-> m, grouped |-> <<>>]) :
                    ms \in PackModsPool, m \in AppliedMapPool}
    /\ mods \in ModListPool
    /\ mods0 = mods
    /\ applied = FALSE
    /\ store = [values |-> InstalledMap, grouped |-> <<>>]
    /\ store0 = store
    /\ order = <<>> /\ file = NoFile /\ tampered = FALSE /\ loaded = NoFile
    /\ illegal = NoFile
    /\ hierarchy = <<>> /\ packFile = NoFile /\ loadedPack = NoFile
    /\ lastToggle = NoFile
    /\ IdleEnvelope
    /\ IdleApp

\* pack.apply(mod_list)
Apply ==
    /\ ~applied
    /\ mods' = ApplyMods(pack, mods)
    /\ store' = ApplySettings(pack, store)
    /\ mods0' = mods
    /\ store0' = store
    /\ applied' = TRUE
    /\ UNCHANGED <<order, file, tampered, loaded, illegal, envelopeVars, packVars, appVars>>

NextApply == Apply

SpecApply == InitApply /\ [][NextApply]_vars

InPack(id) == \E p \in 1..Len(pack.mods) : pack.mods[p] = id
EnabledNow(m) == m.kind.tag = "Normal" /\ m.kind.enabled

\* C8: after apply every Normal mod of the list is enabled iff its id is in
\* the pack's mod-id list, whatever its flag was before.
C8_EnabledIffInPack ==
    applied =>
        \A i \in 1..Len(mods0) :
            mods0[i].kind.tag = "Normal" =>
                \E j \in 1..Len(mods) :
                    /\ mods[j].name = mods0[i].name
                    /\ mods[j].kind.tag = "Normal"
                    /\ mods[j].kind.enabled = InPack(mods0[i].id)

\* one mod switched off and another switched on by the same apply
C8_Witness ==
    /\ applied
    /\ \E i, j \in 1..Len(mods0) :
          /\ mods0[i].kind = Normal(TRUE) /\ ~InPack(mods0[i].id)
          /\ mods0[j].kind = Normal(FALSE) /\ InPack(mods0[j].id)

\* C9: after apply the mods it enabled stand in the list in the order their
\* ids have in the pack's mod-id list: of two of them, the earlier one's id
\* occurs in the pack no later than the other one's id.
C9_EnabledInPackOrder ==
    applied =>
        \A i, j \in 1..Len(mods) :
            (i < j /\ EnabledNow(mods[i]) /\ EnabledNow(mods[j])) =>
                \E pi, pj \in 1..Len(pack.mods) :
                    /\ pi <= pj
                    /\ pack.mods[pi] = mods[i].id
                    /\ pack.mods[pj] = mods[j].id

\* two mods that apply enabled and had to swap
C9_Witness ==
    /\ applied
    /\ \E i, j \in 1..Len(mods) :
          /\ i < j
          /\ EnabledNow(mods[i]) /\ EnabledNow(mods[j])
          /\ mods[i].id # mods[j].id
          /\ mods[i].name = mods0[j].name
          /\ mods[j].name = mods0[i].name

\* C10: apply leaves the list a permutation of what it was, and every mod
\* it does not enable (a Normal mod whose id is not in the pack, a
\* Translation or Gamemode mod) keeps its index.
C10_PermutationFrame ==
    applied =>
        /\ Len(mods) = Len(mods0)
        /\ \A i \in 1..Len(mods0) :
              \E j \in 1..Len(mods) :
                  /\ mods[j].name = mods0[i].name
                  /\ mods[j].id = mods0[i].id
                  /\ mods[j].kind.tag = mods0[i].kind.tag
                  /\ \A k \in 1..Len(mods) : mods[k].name = mods0[i].name => k = j
        /\ \A i \in 1..Len(mods0) :
              ~(mods0[i].kind.tag = "Normal" /\ InPack(mods0[i].id)) =>
                  /\ mods[i].name = mods0[i].name
                  /\ mods[i].id = mods0[i].id
                  /\ mods[i].kind.tag = mods0[i].kind.tag

\* enabled mods swapped around a translation or game mode the pack names
C10_Witness ==
    /\ applied
    /\ mods # mods0
    /\ \E i \in 1..Len(mods0) : mods0[i].kind.tag # "Normal" /\ InPack(mods0[i].id)
    /\ \E i \in 1..Len(mods) : mods[i].name # mods0[i].name

\* C11: after apply the store maps every key of the pack's settings to the
\* pack's pair, every other key of the store keeps its pair, and no key is
\* removed or added besides the pack's.
C11_SettingsMerged ==
    applied =>
        /\ DOMAIN store.values = DOMAIN store0.values \cup DOMAIN pack.settings.values
        /\ \A k \in DOMAIN pack.settings.values :
              store.values[k] = pack.settings.values[k]
        /\ \A k \in DOMAIN store0.values \ DOMAIN pack.settings.values :
              store.values[k] = store0.values[k]

\* a pair overwritten, a key added and a key left alone by the same apply
C11_Witness ==
    /\ applied
    /\ \E k \in DOMAIN store0.values \cap DOMAIN pack.settings.values :
          store0.values[k] # pack.settings.values[k]
    /\ DOMAIN pack.settings.values \ DOMAIN store0.values # {}
    /\ DOMAIN store0.values \ DOMAIN pack.settings.values # {}

\* C12: ModPack::load of a file whose version field is not 0 fails, and
\* has read the version field only: every byte after it is still unread.
C12_FutureSchemaRejected ==
    (loadedPack # NoFile /\ SubSeq(packFile, 1, 8) # WriteLe(0, 8))
        => loadedPack = [ok |-> FALSE, rest |-> SubSeq(packFile, 9, Len(packFile))]

\* a pack with a mod and a setting, saved, given version 1 and loaded
C12_Witness ==
    /\ loadedPack # NoFile
    /\ SubSeq(packFile, 1, 8) = WriteLe(1, 8)
    /\ pack.mods # <<>>
    /\ Len(packFile) > 40
    /\ ~loadedPack.ok

-----------------------------------------------------------------------------
(* The settings tree: built by ModSettings::load from the map, its include *)
(* flags set from the checkboxes or by include_all, groups added by        *)
(* traverse.  store.grouped keeps the tree as it was built.                *)

InitHierarchy ==
    /\ store \in UNION {{[values |-> m, grouped |-> compute_grouped(m, iter)] :
                            iter \in Perms(DOMAIN m)} : m \in TreeMapPool}
    /\ hierarchy = store.grouped
    /\ lastToggle = NoFile
    /\ order = <<>> /\ file = NoFile /\ tampered = FALSE /\ loaded = NoFile
    /\ illegal = NoFile
    /\ pack = NoFile /\ packFile = NoFile /\ loadedPack = NoFile
    /\ IdleEnvelope /\ IdleApply
    /\ IdleApp

\* group.include_all(include) on the root or on a group below it
IncludeAll ==
    /\ \E path \in GroupPaths(hierarchy) \cup {<<>>}, include \in BOOLEAN :
          /\ hierarchy' = IncludeAllAt(hierarchy, path, include)
          /\ lastToggle' = [from |-> hierarchy, path |-> path, include |-> include]
    /\ UNCHANGED <<pack, packFile, loadedPack, settingsVars, envelopeVars, applyVars, appVars>>

\* tree.traverse(path) with nothing pushed on the group it returns
Traverse ==
    /\ \E path \in TraversePool : hierarchy' = traverse_path(hierarchy, path)
    /\ lastToggle' = NoFile
    /\ UNCHANGED <<pack, packFile, loadedPack, settingsVars, envelopeVars, applyVars, appVars>>

NextHierarchy == ToggleSetting \/ ToggleGroup \/ IncludeAll \/ Traverse

SpecHierarchy == InitHierarchy /\ [][NextHierarchy]_vars

\* the leaves of a tree in the order they stand: the segment names from the
\* root joined with '.', the pair and the include flag
RECURSIVE LeafEntries(_)
LeafEntries(g) ==
    IF g = <<>> THEN <<>>
    ELSE (IF Head(g).isGroup
          THEN [i \in 1..Len(LeafEntries(Head(g).children)) |->
                   [LeafEntries(Head(g).children)[i] EXCEPT
                       !.key = Head(g).name \o <<Dot>> \o @]]
          ELSE <<[key |-> Head(g).name, pair |-> Head(g).pair,
                  include |-> Head(g).include]>>)
         \o LeafEntries(Tail(g))

\* C13: the leaves of the tree and the keys of the store correspond one to
\* one: there are as many leaves as keys, the joined path of every leaf is
\* a key, every key is the path of a leaf, and the leaf holds the key's pair.
C13_LeavesAreKeys ==
    LET leaves == LeafEntries(hierarchy)
    IN /\ Len(leaves) = Cardinality(DOMAIN store.values)
       /\ {leaves[i].key : i \in 1..Len(leaves)} = DOMAIN store.values
       /\ \A i \in 1..Len(leaves) : leaves[i].pair = store.values[leaves[i].key]

\* a key that is a dotted prefix of the other key, with different pairs
C13_Witness ==
    /\ DOMAIN store.values = {KeyA, KeyAB}
    /\ store.values[KeyA] # store.values[KeyAB]
    /\ Len(LeafEntries(hierarchy)) = 2

\* at every level at most one child Group of a name
RECURSIVE OneGroupPerName(_)
OneGroupPerName(g) ==
    /\ \A i, j \in 1..Len(g) :
          (g[i].isGroup /\ g[j].isGroup /\ g[i].name = g[j].name) => i = j
    /\ \A i \in 1..Len(g) : g[i].isGroup => OneGroupPerName(g[i].children)

\* C14: at every level of the tree there is at most one child Group per
\* segment name, and the keys "a.b.c" and "a.b.d" alone build one group "a"
\* holding one group "b" holding exactly the leaves "c" and "d".
C14_GroupsShared ==
    /\ OneGroupPerName(hierarchy)
    /\ DOMAIN store.values = {KeyABC, KeyABD} =>
          /\ Len(store.grouped) = 1
          /\ store.grouped[1].isGroup /\ store.grouped[1].name = <<97>>
          /\ Len(store.grouped[1].children) = 1
          /\ store.grouped[1].children[1].isGroup
          /\ store.grouped[1].children[1].name = <<98>>
          /\ [i \in 1..Len(store.grouped[1].children[1].children) |->
                 <<store.grouped[1].children[1].children[i].isGroup,
                   store.grouped[1].children[1].children[i].name>>]
                = <<<<FALSE, <<99>>>>, <<FALSE, <<100>>>>>>

\* the tree of "a.b.c" and "a.b.d", with a group added below "a" by traverse
C14_Witness ==
    /\ DOMAIN store.values = {KeyABC, KeyABD}
    /\ Len(hierarchy[1].children) = 2

\* a tree without its include flags: shape, names, order and pairs
RECURSIVE NoFlags(_)
NoFlags(g) ==
    [i \in 1..Len(g) |->
        IF g[i].isGroup
        THEN [name |-> g[i].name, children |-> NoFlags(g[i].children)]
        ELSE [name |-> g[i].name, pair |-> g[i].pair]]

\* the include flag of the setting at an index path
RECURSIVE IncludeAt(_, _)
IncludeAt(g, q) ==
    IF Len(q) = 1 THEN g[q[1]].include ELSE IncludeAt(g[q[1]].children, Tail(q))

IsPrefix(p, q) == Len(p) <= Len(q) /\ SubSeq(q, 1, Len(p)) = p

\* C15: include_all(v) on a group sets include = v on every leaf below it at
\* any depth and changes nothing else: shape, names, order, pairs and the
\* flags of the leaves outside the group stay; after include_all(true) the
\* group is all_included.
C15_IncludeAllFrame ==
    lastToggle # NoFile =>
        /\ NoFlags(hierarchy) = NoFlags(lastToggle.from)
        /\ \A q \in SettingPaths(lastToggle.from) :
              IncludeAt(hierarchy, q)
                 = IF IsPrefix(lastToggle.path, q) THEN lastToggle.include
                   ELSE IncludeAt(lastToggle.from, q)
        /\ lastToggle.include => all_included(ChildrenAt(hierarchy, lastToggle.path))

\* include_all on a group below the root that changed a leaf two levels down
\* and left alone a leaf outside the group that has the other flag
C15_Witness ==
    /\ lastToggle # NoFile
    /\ lastToggle.path # <<>>
    /\ \E q, r \in SettingPaths(lastToggle.from) :
          /\ IsPrefix(lastToggle.path, q)
          /\ Len(q) >= Len(lastToggle.path) + 2
          /\ IncludeAt(lastToggle.from, q) # lastToggle.include
          /\ ~IsPrefix(lastToggle.path, r)
          /\ IncludeAt(hierarchy, r) # lastToggle.include

\* C16: all_included of a group is true iff every leaf below it at any depth
\* has include = true: also for a group without children and for one whose
\* descendants are empty groups only.
C16_AllIncluded ==
    \A path \in GroupPaths(hierarchy) \cup {<<>>} :
        all_included(ChildrenAt(hierarchy, path))
           = (\A i \in 1..Len(LeafEntries(ChildrenAt(hierarchy, path))) :
                 LeafEntries(ChildrenAt(hierarchy, path))[i].include)

\* a group holding an empty group only, next to a group whose one leaf, two
\* levels down, is not included
C16_Witness ==
    \E path, other \in GroupPaths(hierarchy) :
        /\ ChildrenAt(hierarchy, path) # <<>>
        /\ LeafEntries(ChildrenAt(hierarchy, path)) = <<>>
        /\ all_included(ChildrenAt(hierarchy, path))
        /\ Len(other) = 1
        /\ \A i \in 1..Len(ChildrenAt(hierarchy, other)) :
              ChildrenAt(hierarchy, other)[i].isGroup
        /\ ~all_included(ChildrenAt(hierarchy, other))

-----------------------------------------------------------------------------
(* The envelope's header fields *)

StoredSize(f) == FromNative(SubSeq(f.bytes, 1, 4))
OriginalSize(f) == FromNative(SubSeq(f.bytes, 5, 8))

\* C17: decompress_file fails whenever stored_size + 8 is not the file size
\* it was given; when they agree and stored_size = original_size it returns
\* the stored payload as it is, and fails when fewer than stored_size
\* payload bytes are there.
C17_SizeCheckAndVerbatim ==
    decompressed # NoFile =>
        /\ StoredSize(envelope) + 8 # givenSize => ~decompressed.ok
        /\ (StoredSize(envelope) + 8 = givenSize
               /\ StoredSize(envelope) = OriginalSize(envelope)) =>
              IF Len(envelope.bytes) - 8 >= StoredSize(envelope)
              THEN /\ decompressed.ok
                   /\ decompressed.val
                         = SubSeq(envelope.bytes, 9, 8 + StoredSize(envelope))
              ELSE ~decompressed.ok

\* a verbatim file that lost its last byte, read with the size its header
\* asks for
C17_Witness ==
    /\ decompressed # NoFile
    /\ damaged
    /\ StoredSize(envelope) + 8 = givenSize
    /\ StoredSize(envelope) = OriginalSize(envelope)
    /\ Len(envelope.bytes) - 8 < StoredSize(envelope)
    /\ ~decompressed.ok

\* C18: when stored_size differs from original_size, decompress_file
\* succeeds only if the block decompresses to exactly original_size bytes.
C18_ExactOriginalSize ==
    (decompressed # NoFile /\ StoredSize(envelope) # OriginalSize(envelope)
                           /\ decompressed.ok)
        => Len(envelope.lz) = OriginalSize(envelope)

\* C19: compress_file stores the input verbatim, with both sizes the input
\* length, whenever the compressed result is not shorter than the input and
\* for every input shorter than 16 bytes; a compressed payload is strictly
\* shorter than the input; the sizes are equal exactly for a verbatim payload.
C19_VerbatimFallback ==
    (envelope # NoFile /\ ~damaged) =>
        /\ Len(buf) < MinInput =>
              envelope.bytes = WriteLe(Len(buf), 4) \o WriteLe(Len(buf), 4) \o buf
        /\ envelope.lz # <<>> => Len(envelope.bytes) - 8 < Len(buf)
        /\ OriginalSize(envelope) = Len(buf)
        /\ (StoredSize(envelope) = OriginalSize(envelope)) <=> (envelope.lz = <<>>)

-----------------------------------------------------------------------------
(* Entries that are not legal: a settings file and a pack file that hold the
   same entries, one of them with a type that does not exist or a Bool that
   is neither 0 nor 1 *)

\* what stands in place of a value: a type and the bytes of its payload
IllegalValues ==
    { [type |-> 4, payload |-> <<>>],
      [type |-> 7, payload |-> <<>>],
      [type |-> 1, payload |-> WriteBe(2, 4)],
      [type |-> 1, payload |-> WriteBe(256, 4)] }
Positions == {"current", "next"}

\* the entry (key, values) as ModSetting::save lays it out, with the value
\* at position pos replaced by bad
IllegalEntry(key, values, pos, bad) ==
    WriteBe(Len(key), 4) \o key
    \o WriteBe(IF pos = "current" THEN bad.type ELSE type_int(values.current), 4)
    \o WriteBe(IF pos = "next" THEN bad.type ELSE type_int(values.next), 4)
    \o (IF pos = "current" THEN bad.payload ELSE ModSettingValueSave(values.current))
    \o (IF pos = "next" THEN bad.payload ELSE ModSettingValueSave(values.next))

\* the entries of values in the order iter; ill names the one that is not
\* legal, or is NoFile
Entries(values, iter, ill) ==
    Concat([i \in 1..Len(iter) |->
               IF ill # NoFile /\ ill.key = iter[i]
               THEN IllegalEntry(iter[i], values[iter[i]], ill.position, ill.value)
               ELSE ModSettingSave(iter[i], values[iter[i]])])

\* a pack file that holds the entries it counts: the layout of ModPack::save
PackFile(p, entries) ==
    WriteLe(0, 8)
    \o WriteStr(p.name, 8, FALSE)
    \o WriteLe(Len(p.mods), 8)
    \o Concat([i \in 1..Len(p.mods) |-> WriteLe(Len(p.mods[i]), 8) \o p.mods[i]])
    \o WriteLe(Cardinality(DOMAIN p.settings.values), 8)
    \o entries

InitDecode ==
    /\ store \in {[values |-> m, grouped |-> <<>>] : m \in PackMapPool}
    /\ order = <<>>
    /\ file = NoFile
    /\ tampered = FALSE
    /\ loaded = NoFile
    /\ illegal = NoFile
    /\ pack = ModPackNew(<<80, 49>>, <<IdA>>, store)
    /\ hierarchy = <<>>
    /\ lastToggle = NoFile
    /\ packFile = NoFile
    /\ loadedPack = NoFile
    /\ IdleEnvelope /\ IdleApply
    /\ IdleApp

\* the store written as a settings file and as the settings of a pack file
WriteFiles ==
    /\ file = NoFile /\ packFile = NoFile
    /\ \E iter \in Perms(DOMAIN store.values) :
         \E outLen \in FastlzOutLens(OurBuf(SettingsBuf(store.values, iter))) :
            /\ file' = ModSettingsSave(store, iter, outLen)
            /\ packFile' = PackFile(pack, Entries(store.values, iter, NoFile))
            /\ order' = iter
    /\ UNCHANGED <<store, tampered, loaded, illegal, hierarchy, pack, loadedPack,
                   lastToggle, envelopeVars, applyVars, appVars>>

\* one value of one entry of both files replaced by one that is not legal
Corrupt ==
    /\ file # NoFile /\ packFile # NoFile /\ illegal = NoFile
    /\ loaded = NoFile /\ loadedPack = NoFile
    /\ \E key \in DOMAIN store.values, pos \in Positions, bad \in IllegalValues :
         LET ill == [key |-> key, position |-> pos, value |-> bad]
             entries == Entries(store.values, order, ill)
             payload == WriteBe(Cardinality(DOMAIN store.values), 8) \o entries
         IN /\ \E outLen \in FastlzOutLens(OurBuf(payload)) :
                  file' = CompressFile(payload, outLen)
            /\ packFile' = PackFile(pack, entries)
            /\ illegal' = ill
    /\ tampered' = TRUE
    /\ UNCHANGED <<store, order, loaded, hierarchy, pack, loadedPack,
                   lastToggle, envelopeVars, applyVars, appVars>>

NextDecode == WriteFiles \/ Corrupt \/ Load \/ PackLoad

SpecDecode == InitDecode /\ [][NextDecode]_vars

\* C20: a settings file and a pack file that hold an entry whose type, at
\* the current or at the next position, is 4 or greater, or whose Bool
\* value is neither 0 nor 1, do not load, whatever the other value of the
\* entry and the other entries are.
C20_IllegalEntryFails ==
    illegal # NoFile =>
        /\ loaded # NoFile => ~loaded.ok
        /\ loadedPack # NoFile => ~loadedPack.ok

\* the second of two entries holds a Bool of 256 at the next position, after
\* a legal current value; both files were loaded, and neither gave a result
C20_Witness ==
    /\ illegal # NoFile
    /\ Len(order) = 2 /\ illegal.key = order[2]
    /\ illegal.position = "next"
    /\ illegal.value = [type |-> 1, payload |-> WriteBe(256, 4)]
    /\ loaded # NoFile /\ ~loaded.ok
    /\ loadedPack # NoFile /\ ~loadedPack.ok

\* the settings count of a pack file: the field after the mod ids
SettingsCount(f) ==
    Try(ReadLe(f, 8), LAMBDA version :
    Try(ReadStr(version.rest, 8, FALSE), LAMBDA name :
    Try(ReadLe(name.rest, 8), LAMBDA num_mods :
    Try(LoadMods(num_mods.rest, num_mods.val, <<>>), LAMBDA mod_ids :
        ReadLe(mod_ids.rest, 8)))))

\* C23: in a pack file written by ModPack::save the settings count equals
\* the number of entries that follow it, for every pack and every state of
\* the include flags.
C23_CountIsEntries ==
    (packFile # NoFile /\ SubSeq(packFile, 1, 8) = WriteLe(0, 8))
        => /\ SettingsCount(packFile).ok
           /\ WrittenEntries(packFile).ok
           /\ SettingsCount(packFile).val = WrittenEntries(packFile).num_entries

-----------------------------------------------------------------------------
(* The tree compute_grouped builds: store.grouped, built at start in
   SpecHierarchy and by ModSettings::load in SpecSettings *)

\* C24: the tree built from a store is the same, with the same order of
\* children at every level, whatever order the entries of the store are
\* visited in.
C24_BuildOrderFree ==
    \A iter \in Perms(DOMAIN store.values) :
        compute_grouped(store.values, iter) = store.grouped

\* the children of every group stand in non-decreasing order of their names
RECURSIVE SortedByName(_)
SortedByName(g) ==
    /\ \A i \in 1..(Len(g) - 1) : ~StrLess(g[i + 1].name, g[i].name)
    /\ \A i \in 1..Len(g) : g[i].isGroup => SortedByName(g[i].children)

\* C25: in a tree built by compute_grouped the children of every group, at
\* every depth, are in non-decreasing lexicographic order of segment name.
C25_ChildrenSorted ==
    SortedByName(store.grouped)

\* "a.b.c" and "a.b.d": visited d first, the leaves were pushed in the other
\* order, two levels down
C25_Witness ==
    /\ DOMAIN store.values = {KeyABC, KeyABD}
    /\ compute_grouped_from(store.values, <<KeyABD, KeyABC>>, <<>>) # store.grouped
    /\ SortedByName(store.grouped)

\* no two children of a group carry the same name
RECURSIVE DistinctNames(_)
DistinctNames(g) ==
    /\ \A i, j \in 1..Len(g) : g[i].name = g[j].name => i = j
    /\ \A i \in 1..Len(g) : g[i].isGroup => DistinctNames(g[i].children)

\* C26: every group of a built tree maps segment names to children: no two
\* children of a group carry the same name, also when one key is a dotted
\* prefix of another.
C26_NamesDistinct ==
    DistinctNames(store.grouped)

\* the groups of a tree that have a leaf below them: their index paths, the
\* empty path for the root
WithLeaf(g) ==
    {path \in GroupPaths(g) \cup {<<>>} : LeafEntries(ChildrenAt(g, path)) # <<>>}

\* C27: every leaf of the tree a settings load built has include = false;
\* the inclusion set is empty and all_included is false for every group
\* with a leaf below it.
C27_FreshTreeExcluded ==
    (loaded # NoFile /\ loaded.ok) =>
        /\ \A q \in SettingPaths(loaded.grouped) : ~IncludeAt(loaded.grouped, q)
        /\ to_set(loaded.grouped) = {}
        /\ IncludedKeys(loaded.grouped) = {}
        /\ \A path \in WithLeaf(loaded.grouped) :
              ~all_included(ChildrenAt(loaded.grouped, path))

\* a loaded store with a leaf at the root and a leaf in a group
C27_Witness ==
    /\ loaded # NoFile /\ loaded.ok
    /\ DOMAIN loaded.values = {KeyAB, KeyE}
    /\ Cardinality(WithLeaf(loaded.grouped)) = 2
    /\ Cardinality(SettingPaths(loaded.grouped)) = 2

-----------------------------------------------------------------------------
(* src/src/app.rs: App.  The popups and the rectangles are display only and
   are not part of the state; the search fields are empty, except for the
   name typed before "Export as modpack". *)

MaxSteps == 4

\* ModConfigItem
ModConfigItem(id, enabled_) == [id |-> id, enabled |-> enabled_]

\* App::sort_mods(mods, mod_config)
sort_mods(all_mods, mod_config) ==
    IF \E i, j \in 1..Len(all_mods) : i # j /\ all_mods[i].id = all_mods[j].id THEN Err
    ELSE LET found == SelectSeq(mod_config,
                                LAMBDA item : \E i \in 1..Len(all_mods) : all_mods[i].id = item.id)
         IN Ok([k \in 1..Len(found) |->
                   LET got_mod == all_mods[CHOOSE i \in 1..Len(all_mods) :
                                             all_mods[i].id = found[k].id]
                   IN IF got_mod.kind.tag = "Normal"
                      THEN [got_mod EXCEPT !.kind.enabled = found[k].enabled]
                      ELSE got_mod],
               <<>>)

\* load_modpacks that leaves out the files that do not load
RECURSIVE load_modpacks_skip(_, _)
load_modpacks_skip(dir, packs) ==
    IF dir = <<>> THEN Ok(packs, <<>>)
    ELSE IF ModPackLoad(Head(dir).bytes).ok /\ Head(dir).file_name[1] # Dot
         THEN load_modpacks_skip(Tail(dir),
                  Append(packs, [file_name |-> Head(dir).file_name,
                                 pack |-> ModPackLoad(Head(dir).bytes).pack]))
         ELSE load_modpacks_skip(Tail(dir), packs)

\* App::load_modpacks(dir): the packs of the files of dir in the order
\* read_dir gives them, without the files whose name starts with '.'
RECURSIVE load_modpacks(_, _)
load_modpacks(dir, packs) ==
    IF dir = <<>> THEN Ok(packs, <<>>)
    ELSE IF Head(dir).file_name[1] = Dot THEN load_modpacks(Tail(dir), packs)
    ELSE IF ModPackLoad(Head(dir).bytes).ok
         THEN load_modpacks(Tail(dir),
                  Append(packs, [file_name |-> Head(dir).file_name,
                                 pack |-> ModPackLoad(Head(dir).bytes).pack]))
         ELSE Err

\* App::init on the disk d: the list, the store and the packs of the App
\* when it returns, and whether it returned Ok; one result for each order
\* compute_grouped may visit the loaded map in
init(d, mods_, store_, modpacks_) ==
    LET sorted == sort_mods(d.loaded, d.config)
        packs == load_modpacks(d.packs, <<>>)
    IN IF ~sorted.ok
       THEN {[mods |-> mods_, store |-> store_, modpacks |-> modpacks_, ok |-> FALSE]}
       ELSE {IF ~r.ok
             THEN [mods |-> sorted.val, store |-> store_, modpacks |-> modpacks_,
                   ok |-> FALSE]
             ELSE IF ~packs.ok
             THEN [mods |-> sorted.val,
                   store |-> [values |-> r.values, grouped |-> r.grouped],
                   modpacks |-> modpacks_, ok |-> FALSE]
             ELSE [mods |-> sorted.val,
                   store |-> [values |-> r.values, grouped |-> r.grouped],
                   modpacks |-> packs.val, ok |-> TRUE] :
                r \in ModSettingsLoad(d.settings, Len(d.settings.bytes))}

\* the ids "Export as modpack" would take from every Normal mod
ExportIdsAll(ms) ==
    LET sel == SelectSeq(ms, LAMBDA e : e.kind.tag = "Normal")
    IN [k \in 1..Len(sel) |-> sel[k].id]

\* the ids "Export as modpack" hands to ModPack::new: the enabled Normal
\* mods of the list, in its order
ExportIds(ms) ==
    LET sel == SelectSeq(ms, LAMBDA e : e.kind.tag = "Normal" /\ e.kind.enabled)
    IN [k \in 1..Len(sel) |-> sel[k].id]

\* the pack replaces the first pack of its file name, or is pushed
Exported(packs, entry) ==
    IF \E i \in 1..Len(packs) : packs[i].file_name = entry.file_name
    THEN [packs EXCEPT ![CHOOSE i \in 1..Len(packs) :
                            /\ packs[i].file_name = entry.file_name
                            /\ \A j \in 1..(i - 1) : packs[j].file_name # entry.file_name]
                         = entry]
    ELSE Append(packs, entry)

\* the index of the pack of a file name
IndexOf(packs, file_name) ==
    CHOOSE i \in 1..Len(packs) :
        /\ packs[i].file_name = file_name
        /\ \A j \in 1..(i - 1) : packs[j].file_name # file_name

\* File::create(./modpacks/name) and the bytes written to it
WriteFile(dir, file_name, bytes) ==
    IF \E i \in 1..Len(dir) : dir[i].file_name = file_name
    THEN [i \in 1..Len(dir) |->
             IF dir[i].file_name = file_name
             THEN [file_name |-> file_name, bytes |-> bytes] ELSE dir[i]]
    ELSE Append(dir, [file_name |-> file_name, bytes |-> bytes])

\* a Save button without its condition
SaveEnabledAlways(errored) == TRUE

\* add_enabled(!self.init_errored, Button::new("Save"))
SaveEnabled(errored) == ~errored

\* App::save_mods: the <Mod> elements written, as parse_config reads them
save_mods(ms) ==
    [i \in 1..Len(ms) |->
        ModConfigItem(ms[i].id, ms[i].kind.tag = "Normal" /\ ms[i].kind.enabled)]

\* render_dnd_modlist: the row from_idx dropped on the line to_idx, both
\* counted from 0, every mod shown
Dropped(ms, from_idx, to_idx) ==
    LET source == ms[from_idx + 1]
        removed == SubSeq(ms, 1, from_idx) \o SubSeq(ms, from_idx + 2, Len(ms))
        target_mod_idx == IF to_idx >= from_idx THEN to_idx - 1 ELSE to_idx
    IN IF target_mod_idx >= Len(removed) THEN Append(removed, source)
       ELSE SubSeq(removed, 1, target_mod_idx) \o <<source>>
            \o SubSeq(removed, target_mod_idx + 1, Len(removed))

\* what is found on the disk at start
LoadedMods ==
    <<Mod(IdA, <<49>>, Normal(FALSE)), Mod(IdB, <<50>>, Normal(FALSE)),
      Mod(IdC, <<51>>, Translation)>>
ConfigBAC == <<ModConfigItem(IdB, TRUE), ModConfigItem(IdA, FALSE), ModConfigItem(IdC, TRUE)>>
ConfigAA == <<ModConfigItem(IdA, TRUE), ModConfigItem(IdA, FALSE)>>
ShortestLen(payload) ==
    CHOOSE l \in FastlzOutLens(OurBuf(payload)) :
        \A m \in FastlzOutLens(OurBuf(payload)) : l <= m
GoodSettings ==
    CompressFile(SettingsBuf(InstalledMap, <<KeyA, KeyAB>>),
                 ShortestLen(SettingsBuf(InstalledMap, <<KeyA, KeyAB>>)))
BadSettingsBuf ==
    WriteBe(2, 8)
    \o Entries(InstalledMap, <<KeyA, KeyAB>>,
               [key |-> KeyAB, position |-> "next",
                value |-> [type |-> 4, payload |-> <<>>]])
BadSettings == CompressFile(BadSettingsBuf, ShortestLen(BadSettingsBuf))
PackP1 ==
    ModPackNew(<<80, 49>>, <<IdA, IdB>>,
               [values |-> (KeyA :> Pair(Bool(TRUE), None))
                           @@ (KeyE :> Pair(String(<<120>>), Number(One))),
                grouped |-> <<>>])
PackP2 == ModPackNew(<<80, 50>>, <<IdB>>, [values |-> EmptyMap, grouped |-> <<>>])
FileP1 ==
    [file_name |-> <<80, 49>>,
     bytes |-> PackFile(PackP1, Entries(PackP1.settings.values, <<KeyA, KeyE>>, NoFile))]
FileP2 == [file_name |-> <<80, 50>>, bytes |-> ModPackSave(PackP2, <<>>, <<>>)]
FileBad == [file_name |-> <<80, 51>>, bytes |-> ModPackSave(PackP1, <<>>, <<KeyA, KeyE>>)]
FileHidden == [file_name |-> <<Dot, 104>>, bytes |-> <<>>]
DiskPool ==
    { [loaded |-> LoadedMods, config |-> ConfigBAC, settings |-> GoodSettings,
       packs |-> <<FileHidden, FileP1, FileP2>>],
      [loaded |-> LoadedMods, config |-> ConfigAA, settings |-> GoodSettings,
       packs |-> <<FileP1>>],
      [loaded |-> LoadedMods, config |-> ConfigBAC, settings |-> BadSettings,
       packs |-> <<FileP1>>],
      [loaded |-> LoadedMods, config |-> ConfigBAC, settings |-> GoodSettings,
       packs |-> <<FileP1, FileBad>>],
      [loaded |-> Append(LoadedMods, Mod(IdA, <<52>>, Gamemode)), config |-> ConfigBAC,
       settings |-> GoodSettings, packs |-> <<FileP1>>] }

Click(op, i) ==
    [op |-> op, pack |-> i,
     again |-> op = "apply" /\ last.op = "apply" /\ last.pack = i,
     exported |-> op = "apply" /\ last.op = "export" /\ last.pack = i]

\* App::new
InitApp ==
    /\ disk \in DiskPool
    /\ modpacks = <<>>
    /\ init_errored = FALSE
    /\ started = FALSE
    /\ config_written = FALSE
    /\ last = NoFile
    /\ steps = 0
    /\ IdleSettings /\ IdleEnvelope /\ IdlePack /\ IdleApply

\* App::run: init, and init_errored set when it fails
RunApp ==
    /\ ~started
    /\ \E r \in init(disk, mods, store, modpacks) :
          /\ mods' = r.mods
          /\ store' = r.store
          /\ modpacks' = r.modpacks
          /\ init_errored' = ~r.ok
    /\ started' = TRUE
    /\ last' = [op |-> "run", pack |-> 0, again |-> FALSE, exported |-> FALSE]
    /\ UNCHANGED <<disk, config_written, steps, mods0, store0, applied,
                   order, file, tampered, loaded, illegal, envelopeVars, packVars>>

\* the Apply button of a pack: ModPack::render, ModPack::apply
ApplyPack ==
    /\ started /\ steps < MaxSteps
    /\ \E i \in 1..Len(modpacks) :
          /\ mods' = ApplyMods(modpacks[i].pack, mods)
          /\ store' = ApplySettings(modpacks[i].pack, store)
          /\ last' = Click("apply", i)
    /\ mods0' = mods
    /\ store0' = store
    /\ applied' = TRUE
    /\ steps' = steps + 1
    /\ UNCHANGED <<disk, modpacks, init_errored, started, config_written,
                   order, file, tampered, loaded, illegal, envelopeVars, packVars>>

\* "Export as modpack" with a name typed: the pack of the enabled mods and
\* the store is saved and joins the packs; File::create fails for the empty
\* name.  The file ModPack::save writes is the same for every include tree.
Export ==
    /\ started /\ steps < MaxSteps
    /\ \E name \in NamePool :
          IF name = <<>>
          THEN UNCHANGED <<disk, modpacks, last>>
          ELSE LET pack_ == ModPackNew(name, ExportIds(mods), store)
                   packs == Exported(modpacks, [file_name |-> name, pack |-> pack_])
               IN /\ \E iter \in Perms(DOMAIN store.values) :
                        disk' = [disk EXCEPT !.packs =
                                    WriteFile(@, name, ModPackSave(pack_, store.grouped, iter))]
                  /\ modpacks' = packs
                  /\ last' = Click("export", IndexOf(packs, name))
    /\ steps' = steps + 1
    /\ UNCHANGED <<mods, store, mods0, store0, applied, init_errored, started,
                   config_written,
                   order, file, tampered, loaded, illegal, envelopeVars, packVars>>

\* the Save button
SaveButton ==
    /\ started /\ steps < MaxSteps
    /\ SaveEnabled(init_errored)
    /\ disk' = [disk EXCEPT !.config = save_mods(mods)]
    /\ config_written' = TRUE
    /\ last' = Click("save", 0)
    /\ steps' = steps + 1
    /\ UNCHANGED <<mods, store, modpacks, mods0, store0, applied, init_errored, started,
                   order, file, tampered, loaded, illegal, envelopeVars, packVars>>

\* the checkbox of a Normal mod
ToggleMod ==
    /\ started /\ steps < MaxSteps
    /\ \E i \in 1..Len(mods) :
          /\ mods[i].kind.tag = "Normal"
          /\ mods' = [mods EXCEPT ![i].kind.enabled = ~@]
    /\ last' = Click("toggle", 0)
    /\ steps' = steps + 1
    /\ UNCHANGED <<store, disk, modpacks, mods0, store0, applied, init_errored, started,
                   config_written,
                   order, file, tampered, loaded, illegal, envelopeVars, packVars>>

\* a row of the list dragged to another line
Drag ==
    /\ started /\ steps < MaxSteps
    /\ ~init_errored
    /\ \E from_idx \in 0..(Len(mods) - 1), to_idx \in 0..Len(mods) :
          /\ from_idx # to_idx
          /\ mods' = Dropped(mods, from_idx, to_idx)
    /\ last' = Click("drag", 0)
    /\ steps' = steps + 1
    /\ UNCHANGED <<store, disk, modpacks, mods0, store0, applied, init_errored, started,
                   config_written,
                   order, file, tampered, loaded, illegal, envelopeVars, packVars>>

\* the checkbox of a setting in the settings panel
IncludeSetting ==
    /\ started /\ steps < MaxSteps
    /\ \E path \in SettingPaths(store.grouped) :
          store' = [store EXCEPT !.grouped = ClickSetting(@, path)]
    /\ last' = Click("include", 0)
    /\ steps' = steps + 1
    /\ UNCHANGED <<mods, disk, modpacks, mods0, store0, applied, init_errored, started,
                   config_written,
                   order, file, tampered, loaded, illegal, envelopeVars, packVars>>

\* the checkbox of a group in the settings panel
IncludeGroup ==
    /\ started /\ steps < MaxSteps
    /\ \E path \in GroupPaths(store.grouped) :
          store' = [store EXCEPT !.grouped = ClickGroup(@, path)]
    /\ last' = Click("include", 0)
    /\ steps' = steps + 1
    /\ UNCHANGED <<mods, disk, modpacks, mods0, store0, applied, init_errored, started,
                   config_written,
                   order, file, tampered, loaded, illegal, envelopeVars, packVars>>

NextApp ==
    RunApp \/ ApplyPack \/ Export \/ SaveButton \/ ToggleMod \/ Drag
    \/ IncludeSetting \/ IncludeGroup

SpecApp == InitApp /\ [][NextApp]_vars

\* the store and the packs of App::new
NewStore == [values |-> EmptyMap, grouped |-> <<>>]

\* C21: a settings load or a pack load that fails gives no store and no
\* pack, and leaves the store and the list of packs of the application as
\* they were: after a start whose settings file does not load the store is
\* the one of App::new, and after a start where a pack file does not load
\* the list of packs is the one of App::new, whatever was parsed before.
C21_FailedLoadAborts ==
    (started /\ last.op = "run") =>
        /\ (\A r \in ModSettingsLoad(disk.settings, Len(disk.settings.bytes)) : ~r.ok)
              => /\ ModSettingsLoad(disk.settings, Len(disk.settings.bytes)) = {Err}
                 /\ store = NewStore
                 /\ modpacks = <<>>
                 /\ init_errored
        /\ (\E i \in 1..Len(disk.packs) :
               disk.packs[i].file_name[1] # Dot /\ ~ModPackLoad(disk.packs[i].bytes).ok)
              => /\ modpacks = <<>>
                 /\ init_errored

\* a pack file that loads, then one that does not: no pack is kept
C21_Witness ==
    /\ started /\ last.op = "run"
    /\ Len(disk.packs) = 2
    /\ ModPackLoad(disk.packs[1].bytes).ok
    /\ ~ModPackLoad(disk.packs[2].bytes).ok
    /\ store.values = InstalledMap
    /\ modpacks = <<>>
    /\ init_errored

\* C22: once an apply has added a key to the store or replaced a pair, the
\* tree held next to the store has a leaf for exactly every key of the
\* store, holding the store's pair.
C22_TreeFollowsStore ==
    (started /\ last.op = "apply" /\ store.values # store0.values) =>
        LET leaves == LeafEntries(store.grouped)
        IN /\ Len(leaves) = Cardinality(DOMAIN store.values)
           /\ {leaves[i].key : i \in 1..Len(leaves)} = DOMAIN store.values
           /\ \A i \in 1..Len(leaves) :
                 /\ leaves[i].key \in DOMAIN store.values
                 /\ leaves[i].pair = store.values[leaves[i].key]

\* C28: a pack applied twice in a row: the second apply leaves the list of
\* mods, order and flags, and the store as the first apply left them.
C28_ApplyIdempotent ==
    (started /\ last.op = "apply" /\ last.again) =>
        /\ mods = mods0
        /\ store = store0

\* the pack of A and B applied twice to a list that had B before A
C28_Witness ==
    /\ started /\ last.op = "apply" /\ last.again
    /\ modpacks[last.pack].pack.mods = <<IdA, IdB>>
    /\ Len(mods) = 3 /\ mods[1].id = IdA /\ mods[2].id = IdB
    /\ mods[1].kind.enabled /\ mods[2].kind.enabled
    /\ mods = mods0

\* the ids of the list are pairwise distinct
DistinctIds(ms) == \A i, j \in 1..Len(ms) : ms[i].id = ms[j].id => i = j

\* C29: with pairwise distinct ids in the list, the pack that "Export as
\* modpack" has just built from the list and the store, applied at once,
\* changes neither the order of the list nor a flag nor the store.
C29_ExportApplyUnchanged ==
    (started /\ last.op = "apply" /\ last.exported /\ DistinctIds(mods0)) =>
        /\ mods = mods0
        /\ store = store0

\* a list with an enabled and a disabled Normal mod, exported and applied
C29_Witness ==
    /\ started /\ last.op = "apply" /\ last.exported /\ DistinctIds(mods0)
    /\ \E i, j \in 1..Len(mods) :
          /\ mods[i].kind.tag = "Normal" /\ mods[i].kind.enabled
          /\ mods[j].kind.tag = "Normal" /\ ~mods[j].kind.enabled
    /\ store.values # EmptyMap
    /\ mods = mods0

\* C30: once init has failed, the mod configuration file is never written:
\* save_mods does not run, whatever is clicked.
C30_NoSaveAfterFailedInit ==
    init_errored => (~config_written /\ disk.config \in {ConfigBAC, ConfigAA})

\* a failed start followed by three clicks
C30_Witness ==
    /\ init_errored
    /\ steps = MaxSteps
    /\ last.op = "apply"
    /\ ~config_written

====
